---- MODULE Spec2Model ----
(***************************************************************************)
(* A model of the X-Ray decision-observability SDK:                        *)
(*   - XRayInstance (the execution builder) of lib/xray/sdk.ts, which is   *)
(*     the second half of src/src/lib/xray/types.ts (lines 206-466);       *)
(*   - InMemoryXRayStore (the trace store) of lib/xray/store.ts, which is  *)
(*     src/unnamed/part_000;                                               *)
(*   - useXRayDemo (the live demo hook) of src/unnamed/part_001, driven by *)
(*     the buttons of components/xray/Dashboard.tsx.                       *)
(*                                                                         *)
(* JavaScript objects are modelled by reference.  The builder's execution  *)
(* object, the array of its steps and its context object live in a small   *)
(* heap; the store's Map and the objects getExecution returns hold         *)
(* references into that heap, exactly as the code copies references.       *)
(*                                                                         *)
(* undefined is "undefined" for strings and references and 0 for           *)
(* timestamps (Date.now() is never 0).  An optional list or an optional    *)
(* number of a query is <<>> when absent and <<value>> when present.       *)
(***************************************************************************)
EXTENDS Integers, Sequences, FiniteSets, TLC

\* ---------------------------------------------------------------- bounds
MaxClock == 2      \* Date.now() ranges over 1..MaxClock
MaxOpen == 2       \* step() calls that return a sub-builder
MaxRecords == 2    \* length of execution.steps
MaxRegs == 2       \* subscribe() calls
MaxSnaps == 1      \* objects returned by getExecution() that the caller keeps
MaxQueryTime == 3  \* fromTime and toTime of a query range over 0..MaxQueryTime
MaxPage == 3       \* limit and offset of a query range up to MaxPage
MaxRuns == 2       \* runDemo() calls

\* ---------------------------------------------------------- input domains
Callbacks == {"f", "g"}                \* subscriber functions, by identity
Keys == {"k1", "k2"}                   \* addContext keys
Values == {"v1", "v2"}                 \* addContext values
FinalOutputs == {"undefined", "fo"}    \* finalize(finalOutput?)
Reasonings == {"r1"}                   \* withReasoning(reasoning)
ExecId == "x1"                         \* the id generateId() gave the execution
StepIds == 1..MaxOpen                  \* the ids generateId() gave the steps, all distinct

Undef == "undefined"
\* metrics?: StepMetrics as passed to complete: absent (no field), or holding a
\* duration and an outputCount of the caller
NoMetrics == [f \in {} |-> 0]
MetricsArgs == {NoMetrics, [duration |-> 9, outputCount |-> 1]}

\* the builder's own execution object; snapshots are 1..MaxSnaps
BuilderRef == 0
\* the steps array created by the constructor
StepsArr == "a0"
\* config.context (the caller's object) and the object addContext creates
CfgCtx == "c0"
NewCtx == "c1"
CtxAddrs == {CfgCtx, NewCtx}
EmptyCtx == [k \in Keys |-> Undef]
\* the mapping a caller passes as config.context
InitialCtx == [k \in Keys |-> IF k = "k1" THEN "v1" ELSE Undef]

\* config.executionName || 'Unnamed Execution', with no executionName configured
DefaultName == "Unnamed Execution"
\* StepStatus, the status of a step and of an execution
Statuses == {"pending", "running", "completed", "failed"}
\* XRayExecution objects the store's user builds itself and passes to save():
\* two share the id "m1" and two the id "m2"; tags and endTime are optional;
\* each has a steps array of its own
Made ==
    << [id |-> "m1", name |-> "beta", startTime |-> 1, endTime |-> 0,
        status |-> "pending", finalOutput |-> Undef, steps |-> "a1",
        context |-> Undef, tags |-> <<>>],
       [id |-> "m1", name |-> "alpha", startTime |-> 2, endTime |-> 3,
        status |-> "failed", finalOutput |-> Undef, steps |-> "a2",
        context |-> Undef, tags |-> << <<"t1", "t3">> >>],
       [id |-> "m2", name |-> "alpha", startTime |-> 2, endTime |-> 2,
        status |-> "completed", finalOutput |-> "fo", steps |-> "a3",
        context |-> Undef, tags |-> << <<"t3">> >>],
       [id |-> "m2", name |-> "gamma", startTime |-> 3, endTime |-> 0,
        status |-> "running", finalOutput |-> Undef, steps |-> "a4",
        context |-> Undef, tags |-> << <<"t1">> >>] >>
MadeRefs == {MaxSnaps + i : i \in 1..Len(Made)}
MadeArrs == {Made[i].steps : i \in 1..Len(Made)}

\* every reference and every id of the model
AllRefs == {BuilderRef} \cup (1..MaxSnaps) \cup MadeRefs
AllIds == {ExecId} \cup {Made[i].id : i \in 1..Len(Made)}

VARIABLES
    now,          \* the latest value Date.now() returned
    created,      \* whether new XRayInstance(config) has run
    autoSave,     \* XRayInstance.autoSave
    execution,    \* XRayInstance.execution: the builder's execution object
    stepArr,      \* heap of arrays: StepsArr -> the sequence of step records
    ctxObj,       \* heap of context objects: address -> mapping
    stepData,     \* the closure of each sub-builder step() returned
    snaps,        \* the objects getExecution() returned, kept by the caller
    executions,   \* InMemoryXRayStore.executions: Map in insertion order, id -> reference
    subscribers,  \* InMemoryXRayStore.subscribers: Set in insertion order
    regs,         \* the subscribe() calls made so far and whether each was unsubscribed
    saved,        \* the reference the latest call passed to save(), NoSave if it saved nothing
    notified,     \* how often the latest call's save() invoked each callback
    raised,       \* the exception the latest call let through to its caller
    query,        \* <<options>> when the latest call was findAll(options), else <<>>
    result,       \* the array that findAll call returned: references, in order
    isRunning,    \* useXRayDemo: the isRunning state
    liveExecution,\* useXRayDemo: the liveExecution state, <<>> for null
    abortRef,     \* useXRayDemo: abortRef.current
    runs,         \* each runDemo() call: where its async body waits and its loop index i
    stopped       \* the runDemo() calls that were in progress at a stopDemo or resetDemo

sdkVars == <<now, created, autoSave, execution, stepArr, ctxObj, stepData, snaps,
             executions, subscribers, regs, saved, notified, raised, query, result>>
demoVars == <<isRunning, liveExecution, abortRef, runs, stopped>>
vars == <<sdkVars, demoVars>>

\* ------------------------------------------------------------- helpers
Min(a, b) == IF a <= b THEN a ELSE b

\* Date.now(): the clock never runs backwards and may tick between two reads
Clock(t) == t .. Min(t + 1, MaxClock)

NoExecution ==
    [id |-> Undef, name |-> Undef, startTime |-> 0, endTime |-> 0,
     status |-> "pending", finalOutput |-> Undef, steps |-> StepsArr,
     context |-> Undef, tags |-> <<>>]

NoStepData == [open |-> FALSE, startTime |-> 0, reasoning |-> Undef]

SeqSet(s) == {s[i] : i \in 1..Len(s)}

RECURSIVE RemoveAll(_, _)
RemoveAll(s, x) ==
    IF s = <<>> THEN <<>>
    ELSE IF Head(s) = x THEN RemoveAll(Tail(s), x)
    ELSE <<Head(s)>> \o RemoveAll(Tail(s), x)

\* ------------------------------------------------------------ the store
\* Map.prototype.has / get on the insertion-ordered Map
MapHas(m, id) == \E i \in 1..Len(m) : m[i].id = id
MapGet(m, id) == LET i == CHOOSE i \in 1..Len(m) : m[i].id = id IN m[i].ref

\* a Map whose set leaves the value of a present key alone
MapSetKeepsPresent(m, id, ref) ==
    IF MapHas(m, id) THEN m ELSE Append(m, [id |-> id, ref |-> ref])

\* Map.prototype.set: a present key keeps its place and takes the new value
MapSet(m, id, ref) ==
    IF MapHas(m, id)
    THEN [i \in 1..Len(m) |-> IF m[i].id = id THEN [id |-> id, ref |-> ref] ELSE m[i]]
    ELSE Append(m, [id |-> id, ref |-> ref])

\* a Map whose delete removes every entry from the key's on
MapDeleteFrom(m, id) ==
    IF MapHas(m, id)
    THEN SubSeq(m, 1, (CHOOSE i \in 1..Len(m) : m[i].id = id) - 1)
    ELSE m

\* Map.prototype.delete
MapDelete(m, id) == SelectSeq(m, LAMBDA e : e.id # id)

\* Set.prototype.add / delete on the insertion-ordered Set
SetAdd(s, cb) == IF cb \in SeqSet(s) THEN s ELSE Append(s, cb)
SetDelete(s, cb) == RemoveAll(s, cb)

\* subscribers.forEach(callback => callback(execution)), where the callback at
\* position k throws (k = 0: none throws): the callbacks before k and k itself ran
Delivered(subs, k) ==
    [cb \in Callbacks |->
        Cardinality({i \in 1..Len(subs) : subs[i] = cb /\ (k = 0 \/ i <= k)})]

NoneNotified == [cb \in Callbacks |-> 0]
NoSave == BuilderRef - 1

\* which callback, if any, throws during one forEach
ThrowAt(subs) == 0..Len(subs)

\* the object a reference denotes: the builder's, a snapshot, or one the caller built
Obj(ref) ==
    IF ref = BuilderRef THEN execution
    ELSE IF ref <= MaxSnaps THEN snaps[ref]
    ELSE Made[ref - MaxSnaps]

\* ---------------------------------------------------------------- Init
Init ==
    /\ now = 1
    /\ created = FALSE
    /\ autoSave = TRUE
    /\ execution = NoExecution
    /\ stepArr = [a \in {StepsArr} \cup MadeArrs |-> <<>>]
    /\ ctxObj = [c \in CtxAddrs |-> EmptyCtx]
    /\ stepData = [s \in StepIds |-> NoStepData]
    /\ snaps = <<>>
    /\ executions = <<>>
    /\ subscribers = <<>>
    /\ regs = <<>>
    /\ saved = NoSave
    /\ notified = NoneNotified
    /\ raised = "none"
    /\ query = <<>>
    /\ result = <<>>
    /\ isRunning = FALSE
    /\ liveExecution = <<>>
    /\ abortRef = FALSE
    /\ runs = [r \in 1..MaxRuns |-> [pc |-> "idle", i |-> 0]]
    /\ stopped = {}

\* ------------------------------------------------------- store operations
\* a call other than findAll leaves no query result behind; no call of the SDK or
\* of the store reaches the state of the demo hook
NoQuery == query' = <<>> /\ result' = <<>> /\ UNCHANGED demoVars

\* save(execution) called with the object at ref, whose id is id: the Map is
\* written first, then the subscribers run in insertion order until the one at
\* position k throws (k = 0: none throws)
save(id, ref, k) ==
    /\ executions' = MapSet(executions, id, ref)
    /\ saved' = ref
    /\ notified' = Delivered(subscribers, k)
    /\ raised' = IF k = 0 THEN "none" ELSE "subscriber"
    /\ NoQuery

\* a call that reaches no save() and returns
NoSaveReturn ==
    /\ saved' = NoSave
    /\ notified' = NoneNotified
    /\ raised' = "none"
    /\ NoQuery
    /\ UNCHANGED executions

\* a call that a throwing lifecycle hook ends before it reaches its save()
HookRaise ==
    /\ saved' = NoSave
    /\ notified' = NoneNotified
    /\ raised' = "hook"
    /\ NoQuery
    /\ UNCHANGED executions

\* an autosave that ignores the autoSave setting
AutoSaveAlways(on, k) == save(ExecId, BuilderRef, k)

\* if (this.autoSave) { xrayStore.save(this.execution); }
AutoSave(on, k) ==
    IF on THEN save(ExecId, BuilderRef, k) ELSE k = 0 /\ NoSaveReturn

\* ------------------------------------------------------ builder operations
\* new XRayInstance(config)
createXRay(cfgAutoSave, cfgContext, t, k) ==
    /\ ~created
    /\ created' = TRUE
    /\ autoSave' = cfgAutoSave
    /\ now' = t
    /\ execution' = [id |-> ExecId, name |-> DefaultName, startTime |-> t,
                     endTime |-> 0, status |-> "running", finalOutput |-> Undef,
                     steps |-> StepsArr,
                     context |-> IF cfgContext THEN CfgCtx ELSE Undef,
                     tags |-> <<>>]
    /\ ctxObj' = IF cfgContext THEN [ctxObj EXCEPT ![CfgCtx] = InitialCtx] ELSE ctxObj
    /\ AutoSave(cfgAutoSave, k)
    /\ UNCHANGED <<stepArr, stepData, snaps, subscribers, regs>>

\* the sub-builders step() has returned so far
Opened == {s \in StepIds : stepData[s].open}

\* step(name, type): onStepStart runs before the sub-builder exists; when it throws,
\* step() returns nothing and the closure is lost
step(t, hookThrows) ==
    /\ created
    /\ now' = t
    /\ IF hookThrows
       THEN /\ HookRaise
            /\ UNCHANGED stepData
       ELSE /\ Cardinality(Opened) < MaxOpen
            /\ LET s == Cardinality(Opened) + 1 IN
               stepData' = [stepData EXCEPT ![s] =
                               [open |-> TRUE, startTime |-> t, reasoning |-> Undef]]
            /\ NoSaveReturn
    /\ UNCHANGED <<created, autoSave, execution, stepArr, ctxObj, snaps, subscribers, regs>>

\* withInput / withFilters / withEvaluations / withReasoning / withMetadata:
\* each stores its argument in one field of stepData and returns the builder
withReasoning(s, r) ==
    /\ stepData[s].open
    /\ stepData' = [stepData EXCEPT ![s].reasoning = r]
    /\ NoSaveReturn
    /\ UNCHANGED <<now, created, autoSave, execution, stepArr, ctxObj, snaps,
                   subscribers, regs>>

\* { ...metrics, duration: d }: the caller's fields, then duration over them
MergeDuration(metrics, d) ==
    [f \in DOMAIN metrics \cup {"duration"} |-> IF f = "duration" THEN d ELSE metrics[f]]

\* the object literal complete() builds: ...stepData, output, status, endTime:
\* Date.now() (t1), metrics: {...metrics, duration: Date.now() (t2) - startTime}
CompletedStep(s, metrics, t1, t2) ==
    [id |-> s, status |-> "completed", startTime |-> stepData[s].startTime,
     endTime |-> t1, reasoning |-> stepData[s].reasoning,
     output |-> "o1", error |-> Undef,
     metrics |-> MergeDuration(metrics, t2 - stepData[s].startTime)]

\* a fail() that records the output a complete() would record
FailedStepWithOutput(s, t1, t2) ==
    [id |-> s, status |-> "failed", startTime |-> stepData[s].startTime,
     endTime |-> t1, reasoning |-> stepData[s].reasoning,
     output |-> "o1", error |-> "e1",
     metrics |-> MergeDuration(NoMetrics, t2 - stepData[s].startTime)]

\* the object literal fail() builds: metrics holds the duration alone
FailedStep(s, t1, t2) ==
    [id |-> s, status |-> "failed", startTime |-> stepData[s].startTime,
     endTime |-> t1, reasoning |-> stepData[s].reasoning,
     output |-> Undef, error |-> "e1",
     metrics |-> MergeDuration(NoMetrics, t2 - stepData[s].startTime)]

\* this.execution.steps.push(step); this.config.onStepComplete?.(step); autosave
PushAndNotify(rec, t2, hookThrows, k) ==
    /\ Len(stepArr[execution.steps]) < MaxRecords
    /\ stepArr' = [stepArr EXCEPT ![execution.steps] = Append(@, rec)]
    /\ now' = t2
    /\ IF hookThrows THEN k = 0 /\ HookRaise ELSE AutoSave(autoSave, k)
    /\ UNCHANGED <<created, autoSave, execution, ctxObj, stepData, snaps,
                   subscribers, regs>>

\* builder.complete(output, metrics?)
complete(s, metrics, t1, t2, hookThrows, k) ==
    /\ stepData[s].open
    /\ PushAndNotify(CompletedStep(s, metrics, t1, t2), t2, hookThrows, k)

\* builder.fail(error)
fail(s, t1, t2, hookThrows, k) ==
    /\ stepData[s].open
    /\ PushAndNotify(FailedStep(s, t1, t2), t2, hookThrows, k)

\* an addContext that replaces the context by an object with the one key
addContextFresh(key, value) ==
    /\ created
    /\ execution' = [execution EXCEPT !.context = NewCtx]
    /\ ctxObj' = [ctxObj EXCEPT ![NewCtx] = [EmptyCtx EXCEPT ![key] = value]]
    /\ NoSaveReturn
    /\ UNCHANGED <<now, created, autoSave, stepArr, stepData, snaps, subscribers, regs>>

\* addContext(key, value)
addContext(key, value) ==
    /\ created
    /\ LET c == IF execution.context = Undef THEN NewCtx ELSE execution.context
           old == IF execution.context = Undef THEN EmptyCtx ELSE ctxObj[c]
       IN /\ execution' = [execution EXCEPT !.context = c]
          /\ ctxObj' = [ctxObj EXCEPT ![c] = [old EXCEPT ![key] = value]]
    /\ NoSaveReturn
    /\ UNCHANGED <<now, created, autoSave, stepArr, stepData, snaps, subscribers, regs>>

\* a finalize that looks at the latest step alone
hasFailedStepLastOnly(steps) == steps # <<>> /\ steps[Len(steps)].status = "failed"

\* this.execution.steps.some(s => s.status === 'failed')
hasFailedStep(steps) == \E i \in 1..Len(steps) : steps[i].status = "failed"

\* a finalize that sets status and finalOutput the first time only
finalizeKeepsFirst(finalOutput, t, hookThrows, k) ==
    /\ created
    /\ now' = t
    /\ execution' = IF execution.endTime # 0
                    THEN [execution EXCEPT !.endTime = t]
                    ELSE [execution EXCEPT
                             !.endTime = t,
                             !.status = IF hasFailedStep(stepArr[execution.steps])
                                        THEN "failed" ELSE "completed",
                             !.finalOutput = finalOutput]
    /\ IF hookThrows THEN k = 0 /\ HookRaise ELSE AutoSave(autoSave, k)
    /\ UNCHANGED <<created, autoSave, stepArr, ctxObj, stepData, snaps, subscribers, regs>>

\* finalize(finalOutput?), and finish(), its alias
finalize(finalOutput, t, hookThrows, k) ==
    /\ created
    /\ now' = t
    /\ execution' = [execution EXCEPT
                        !.endTime = t,
                        !.status = IF hasFailedStep(stepArr[execution.steps])
                                   THEN "failed" ELSE "completed",
                        !.finalOutput = finalOutput]
    /\ IF hookThrows THEN k = 0 /\ HookRaise ELSE AutoSave(autoSave, k)
    /\ UNCHANGED <<created, autoSave, stepArr, ctxObj, stepData, snaps, subscribers, regs>>

\* getExecution(): { ...this.execution } copies every property, references included
getExecution ==
    /\ created
    /\ Len(snaps) < MaxSnaps
    /\ snaps' = Append(snaps, execution)
    /\ NoSaveReturn
    /\ UNCHANGED <<now, created, autoSave, execution, stepArr, ctxObj, stepData,
                   subscribers, regs>>

\* getSteps(): [...this.execution.steps], a new array of the same step objects
getSteps == stepArr[execution.steps]

\* --------------------------------------------------------- store operations
\* the objects the caller can pass to save(): a snapshot it took, an object it
\* built itself, or the builder's own object, which finalize() returns and get()
\* hands out once it is stored
HeldByCaller(ref) ==
    \/ ref \in 1..Len(snaps)
    \/ ref \in MadeRefs
    \/ ref = BuilderRef /\ created
         /\ (execution.endTime # 0 \/ MapHas(executions, ExecId))

\* xrayStore.save(execution), called by the store's user
StoreSave(ref, k) ==
    /\ HeldByCaller(ref)
    /\ save(Obj(ref).id, ref, k)
    /\ UNCHANGED <<now, created, autoSave, execution, stepArr, ctxObj, stepData, snaps,
                   subscribers, regs>>

\* get(id): the stored reference, or undefined
get(id) == IF MapHas(executions, id) THEN MapGet(executions, id) ELSE NoSave

\* what delete(id) returns: Map.prototype.delete tells whether the key was present
deleteReturns(id) == MapHas(executions, id)

\* delete(id)
delete(id) ==
    /\ executions' = MapDelete(executions, id)
    /\ saved' = NoSave
    /\ notified' = NoneNotified
    /\ raised' = "none"
    /\ NoQuery
    /\ UNCHANGED <<now, created, autoSave, execution, stepArr, ctxObj, stepData, snaps,
                   subscribers, regs>>

\* clear()
clear ==
    /\ executions' = <<>>
    /\ saved' = NoSave
    /\ notified' = NoneNotified
    /\ raised' = "none"
    /\ NoQuery
    /\ UNCHANGED <<now, created, autoSave, execution, stepArr, ctxObj, stepData, snaps,
                   subscribers, regs>>

\* subscribe(callback): this.subscribers.add(callback); returns the unsubscribe closure
subscribe(cb) ==
    /\ Len(regs) < MaxRegs
    /\ subscribers' = SetAdd(subscribers, cb)
    /\ regs' = Append(regs, [cb |-> cb, active |-> TRUE])
    /\ NoSaveReturn
    /\ UNCHANGED <<now, created, autoSave, execution, stepArr, ctxObj, stepData, snaps>>

\* the closure subscribe() returned: () => this.subscribers.delete(callback)
unsubscribe(r) ==
    /\ r \in 1..Len(regs)
    /\ subscribers' = SetDelete(subscribers, regs[r].cb)
    /\ regs' = [regs EXCEPT ![r].active = FALSE]
    /\ NoSaveReturn
    /\ UNCHANGED <<now, created, autoSave, execution, stepArr, ctxObj, stepData, snaps>>

\* ------------------------------------------------------------------ queries
Max(a, b) == IF a >= b THEN a ELSE b

\* QueryOptions with every field absent: findAll() and findAll({})
NoOptions ==
    [limit |-> <<>>, offset |-> <<>>, status |-> Undef, tags |-> <<>>,
     fromTime |-> <<>>, toTime |-> <<>>, orderBy |-> Undef, orderDirection |-> Undef]

\* Array.from(this.executions.values()): the stored references in insertion order
MapValues(m) == [i \in 1..Len(m) |-> m[i].ref]

\* a findAll that skips the status filter
FilterStatusSkipped(results, options) == results

\* if (options.status) results = results.filter(e => e.status === options.status)
FilterStatus(results, options) ==
    IF options.status # Undef
    THEN SelectSeq(results, LAMBDA r : Obj(r).status = options.status)
    ELSE results

\* e.tags?.includes(tag): false for an execution without tags
Includes(e, tag) == e.tags # <<>> /\ tag \in SeqSet(e.tags[1])

\* a tags filter that asks for every tag of the list
FilterTagsEvery(results, options) ==
    IF options.tags # <<>> /\ Len(options.tags[1]) > 0
    THEN SelectSeq(results, LAMBDA r :
             \A i \in 1..Len(options.tags[1]) : Includes(Obj(r), options.tags[1][i]))
    ELSE results

\* if (options.tags && options.tags.length > 0)
\*   results = results.filter(e => options.tags.some(tag => e.tags?.includes(tag)))
FilterTags(results, options) ==
    IF options.tags # <<>> /\ Len(options.tags[1]) > 0
    THEN SelectSeq(results, LAMBDA r :
             \E i \in 1..Len(options.tags[1]) : Includes(Obj(r), options.tags[1][i]))
    ELSE results

\* if (options.fromTime !== undefined) keep e.startTime >= options.fromTime
FilterFromTime(results, options) ==
    IF options.fromTime # <<>>
    THEN SelectSeq(results, LAMBDA r : Obj(r).startTime >= options.fromTime[1])
    ELSE results

\* a toTime filter guarded by truthiness, which a bound of 0 switches off
FilterToTimeTruthy(results, options) ==
    IF options.toTime # <<>> /\ options.toTime[1] # 0
    THEN SelectSeq(results, LAMBDA r : Obj(r).startTime <= options.toTime[1])
    ELSE results

\* if (options.toTime !== undefined) keep e.startTime <= options.toTime
FilterToTime(results, options) ==
    IF options.toTime # <<>>
    THEN SelectSeq(results, LAMBDA r : Obj(r).startTime <= options.toTime[1])
    ELSE results

\* the order String.prototype.localeCompare puts the names in
Collation == <<"alpha", "beta", "gamma", "Unnamed Execution">>
localeCompare(x, y) ==
    (CHOOSE i \in 1..Len(Collation) : Collation[i] = x)
        - (CHOOSE i \in 1..Len(Collation) : Collation[i] = y)

\* a comparator value that takes the startTime of an execution without endTime
SortValueStartForMissing(e, orderBy) ==
    IF orderBy = "endTime"
    THEN (IF e.endTime = 0 THEN e.startTime ELSE e.endTime)
    ELSE e.startTime

\* aVal / bVal of the comparator: a.endTime || 0 under 'endTime', a.startTime under
\* 'startTime' and under any orderBy the switch does not list
SortValue(e, orderBy) ==
    IF orderBy = "endTime"
    THEN (IF e.endTime = 0 THEN 0 ELSE e.endTime)
    ELSE e.startTime

\* a comparator whose direction defaults to ascending
CompareAscDefault(a, b, options) ==
    LET orderBy == IF options.orderBy # Undef THEN options.orderBy ELSE "startTime"
    IN IF orderBy = "name"
       THEN (IF options.orderDirection # "desc" THEN localeCompare(a.name, b.name)
                                                ELSE localeCompare(b.name, a.name))
       ELSE (IF options.orderDirection # "desc"
             THEN SortValue(a, orderBy) - SortValue(b, orderBy)
             ELSE SortValue(b, orderBy) - SortValue(a, orderBy))

\* the comparator of results.sort: orderBy || 'startTime', orderDirection || 'desc'
Compare(a, b, options) ==
    LET orderBy == IF options.orderBy # Undef THEN options.orderBy ELSE "startTime"
        direction == IF options.orderDirection # Undef
                     THEN options.orderDirection ELSE "desc"
    IN IF orderBy = "name"
       THEN (IF direction = "asc" THEN localeCompare(a.name, b.name)
                                  ELSE localeCompare(b.name, a.name))
       ELSE (IF direction = "asc"
             THEN SortValue(a, orderBy) - SortValue(b, orderBy)
             ELSE SortValue(b, orderBy) - SortValue(a, orderBy))

\* Array.prototype.sort is stable: r goes behind every element that does not
\* compare greater than it
RECURSIVE InsertSorted(_, _, _)
InsertSorted(sorted, r, options) ==
    IF sorted = <<>> THEN <<r>>
    ELSE IF Compare(Obj(Head(sorted)), Obj(r), options) <= 0
    THEN <<Head(sorted)>> \o InsertSorted(Tail(sorted), r, options)
    ELSE <<r>> \o sorted

RECURSIVE Sort(_, _)
Sort(results, options) ==
    IF results = <<>> THEN <<>>
    ELSE InsertSorted(Sort(SubSeq(results, 1, Len(results) - 1), options),
                      results[Len(results)], options)

\* Array.prototype.slice(start, end): a negative index counts from the end, an
\* index beyond the array is the array's length
Slice(s, start, end) ==
    LET from == IF start < 0 THEN Max(Len(s) + start, 0) ELSE Min(start, Len(s))
        to == IF end < 0 THEN Max(Len(s) + end, 0) ELSE Min(end, Len(s))
    IN SubSeq(s, from + 1, to)

\* a pagination that takes the limit for the end of the slice
PaginateLimitAsEnd(results, options) ==
    LET offset == IF options.offset # <<>> /\ options.offset[1] # 0
                  THEN options.offset[1] ELSE 0
        limit == IF options.limit # <<>> /\ options.limit[1] # 0
                 THEN options.limit[1] ELSE Len(results)
    IN Slice(results, offset, limit)

\* offset = options.offset || 0; limit = options.limit || results.length;
\* results.slice(offset, offset + limit)
Paginate(results, options) ==
    LET offset == IF options.offset # <<>> /\ options.offset[1] # 0
                  THEN options.offset[1] ELSE 0
        limit == IF options.limit # <<>> /\ options.limit[1] # 0
                 THEN options.limit[1] ELSE Len(results)
    IN Slice(results, offset, offset + limit)

\* findAll(options): filter, sort, paginate
findAll(options) ==
    Paginate(
        Sort(FilterToTime(FilterFromTime(FilterTags(FilterStatus(
                 MapValues(executions), options), options), options), options),
             options),
        options)

findByStatus(status) == findAll([NoOptions EXCEPT !.status = status])
findByTags(tags) == findAll([NoOptions EXCEPT !.tags = <<tags>>])
findByTimeRange(from, to) ==
    findAll([NoOptions EXCEPT !.fromTime = <<from>>, !.toTime = <<to>>])

\* count(): this.executions.size
count == Len(executions)

\* a tally that marks a status as seen instead of counting it
RECURSIVE CountIntoMarks(_, _)
CountIntoMarks(counts, refs) ==
    IF refs = <<>> THEN counts
    ELSE CountIntoMarks([counts EXCEPT ![Obj(Head(refs)).status] = 1], Tail(refs))

\* this.executions.forEach(e => { counts[e.status]++ }) over the four zeroed keys
RECURSIVE CountInto(_, _)
CountInto(counts, refs) ==
    IF refs = <<>> THEN counts
    ELSE CountInto([counts EXCEPT ![Obj(Head(refs)).status] = @ + 1], Tail(refs))

countByStatus == CountInto([s \in Statuses |-> 0], MapValues(executions))

\* a call of findAll(options) by the store's user, which keeps the array returned
callFindAll(options) ==
    /\ query' = <<options>>
    /\ result' = findAll(options)
    /\ saved' = NoSave
    /\ notified' = NoneNotified
    /\ raised' = "none"
    /\ UNCHANGED <<now, created, autoSave, execution, stepArr, ctxObj, stepData, snaps,
                   executions, subscribers, regs>>
    /\ UNCHANGED demoVars

\* the options the store's user queries with
OptNumbers(S) == {<<>>} \cup {<<n>> : n \in S}
TagLists == {<<>>, <<"t1">>, <<"t2">>, <<"t1", "t2">>, <<"t2", "t3">>}
StatusQueries == {[NoOptions EXCEPT !.status = s] : s \in Statuses}
TagQueries == {[NoOptions EXCEPT !.tags = <<T>>] : T \in TagLists}
FilterQueries ==
    {[NoOptions EXCEPT !.status = s, !.tags = T, !.fromTime = f, !.toTime = t] :
        s \in {Undef, "failed", "running"},
        T \in {<<>>, << <<"t1">> >>, << <<"t2", "t3">> >>},
        f \in OptNumbers(0..MaxQueryTime), t \in OptNumbers(0..MaxQueryTime)}
SortQueries ==
    {[NoOptions EXCEPT !.orderBy = ob, !.orderDirection = d] :
        ob \in {Undef, "startTime", "endTime", "name", "duration"},
        d \in {Undef, "asc", "desc"}}
PageBases ==
    {NoOptions, [NoOptions EXCEPT !.orderBy = "name", !.orderDirection = "asc"],
     [NoOptions EXCEPT !.fromTime = <<2>>]}
PageQueries ==
    {[b EXCEPT !.limit = l, !.offset = o] :
        b \in PageBases, l \in OptNumbers(0..MaxPage), o \in OptNumbers(0..MaxPage)}
NegativeQueries ==
    {[NoOptions EXCEPT !.limit = l, !.offset = o] :
        l \in OptNumbers(-MaxPage..MaxPage), o \in OptNumbers(-MaxPage..MaxPage)}
QueryOptions ==
    StatusQueries \cup TagQueries \cup FilterQueries \cup SortQueries
        \cup PageQueries \cup NegativeQueries

\* ------------------------------------------- the caller's writes to what it was handed
\* snapshot.context[key] = value, on an object getExecution() returned
CallerSetContext(i, key, value) ==
    /\ i \in 1..Len(snaps)
    /\ snaps[i].context # Undef
    /\ ctxObj' = [ctxObj EXCEPT ![snaps[i].context][key] = value]
    /\ NoSaveReturn
    /\ UNCHANGED <<now, created, autoSave, execution, stepArr, stepData, snaps,
                   subscribers, regs>>

\* snapshot.steps.pop(), on an object getExecution() returned
CallerPopSteps(i) ==
    /\ i \in 1..Len(snaps)
    /\ stepArr[snaps[i].steps] # <<>>
    /\ stepArr' = [stepArr EXCEPT ![snaps[i].steps] = SubSeq(@, 1, Len(@) - 1)]
    /\ NoSaveReturn
    /\ UNCHANGED <<now, created, autoSave, execution, ctxObj, stepData, snaps,
                   subscribers, regs>>

\* xrayStore.get(id).finalOutput = value, on the object get() returned
CallerWriteStored(id, value) ==
    /\ MapHas(executions, id)
    /\ LET ref == MapGet(executions, id) IN
       IF ref = BuilderRef
       THEN /\ execution' = [execution EXCEPT !.finalOutput = value]
            /\ UNCHANGED snaps
       ELSE /\ snaps' = [snaps EXCEPT ![ref].finalOutput = value]
            /\ UNCHANGED execution
    /\ NoSaveReturn
    /\ UNCHANGED <<now, created, autoSave, stepArr, ctxObj, stepData, subscribers, regs>>

\* ------------------------------------------------------------ the demo hook
\* STEP_CONFIGS.length
StepConfigs == 5

\* the execution object runDemo call r builds: status 'running', steps []
NewLive(r) == <<[id |-> r, status |-> "running", steps |-> <<>>]>>

\* setLiveExecution(prev => prev ? {...prev, steps: [...prev.steps, runningStep]} : null)
AppendRunning(live, stepId) ==
    IF live = <<>> THEN <<>>
    ELSE <<[live[1] EXCEPT !.steps = Append(@, [id |-> stepId, status |-> "running"])]>>

\* setLiveExecution(prev => prev ? {...prev,
\*     steps: prev.steps.map(s => s.id === stepId ? completedStep : s)} : null)
MarkCompleted(live, stepId) ==
    IF live = <<>> THEN <<>>
    ELSE <<[live[1] EXCEPT !.steps =
               [n \in 1..Len(@) |->
                   IF @[n].id = stepId THEN [id |-> stepId, status |-> "completed"]
                   ELSE @[n]]]>>

\* setLiveExecution(prev => prev ? {...prev, status: 'completed', ...} : null)
MarkFinished(live) ==
    IF live = <<>> THEN <<>> ELSE <<[live[1] EXCEPT !.status = "completed"]>>

\* the runDemo calls whose async body waits on a timer
InProgress == {r \in 1..MaxRuns : runs[r].pc \in {"step", "pause"}}

\* the body of runDemo call r from the head of loop iteration i (lines 203-223) up
\* to its next await, or through the end of the function (lines 252-276): abort is
\* abortRef.current, live and running the two states as the body finds them
Iterate(r, i, abort, live, running) ==
    IF i < StepConfigs /\ ~abort
    THEN /\ liveExecution' = AppendRunning(live, i + 1)
         /\ isRunning' = running
         /\ runs' = [runs EXCEPT ![r] = [pc |-> "step", i |-> i]]
    ELSE /\ liveExecution' = IF abort THEN live ELSE MarkFinished(live)
         /\ isRunning' = FALSE
         /\ runs' = [runs EXCEPT ![r] = [pc |-> "done", i |-> i]]

\* runDemo(), the r-th call: runs synchronously up to the first await
runDemo(r) ==
    /\ runs[r].pc = "idle"
    /\ \A q \in 1..(r - 1) : runs[q].pc # "idle"
    /\ abortRef' = FALSE
    /\ Iterate(r, 0, FALSE, NewLive(r), TRUE)
    /\ UNCHANGED <<stopped, sdkVars>>

\* the timer of line 226 fires for call r: break when aborted, else the step is
\* completed and the body waits for the timer of line 249
StepTimer(r) ==
    /\ runs[r].pc = "step"
    /\ IF abortRef
       THEN Iterate(r, StepConfigs, TRUE, liveExecution, isRunning)
       ELSE /\ liveExecution' = MarkCompleted(liveExecution, runs[r].i + 1)
            /\ runs' = [runs EXCEPT ![r].pc = "pause"]
            /\ UNCHANGED isRunning
    /\ UNCHANGED <<abortRef, stopped, sdkVars>>

\* the timer of line 249 fires for call r: i++ and the next iteration, if any
PauseTimer(r) ==
    /\ runs[r].pc = "pause"
    /\ Iterate(r, runs[r].i + 1, abortRef, liveExecution, isRunning)
    /\ UNCHANGED <<abortRef, stopped, sdkVars>>

\* stopDemo()
stopDemo ==
    /\ abortRef' = TRUE
    /\ isRunning' = FALSE
    /\ stopped' = stopped \cup InProgress
    /\ UNCHANGED <<liveExecution, runs, sdkVars>>

\* resetDemo()
resetDemo ==
    /\ abortRef' = TRUE
    /\ isRunning' = FALSE
    /\ liveExecution' = <<>>
    /\ stopped' = stopped \cup InProgress
    /\ UNCHANGED <<runs, sdkVars>>

\* ------------------------------------------------------------ specifications
\* The capture protocol: one builder driven through step / setters / complete /
\* fail / addContext / finalize while the clock runs and lifecycle hooks may throw.
Next ==
    \/ \E a \in BOOLEAN, t \in Clock(now) : createXRay(a, FALSE, t, 0)
    \/ \E t \in Clock(now), h \in BOOLEAN : step(t, h)
    \/ \E s \in StepIds, r \in Reasonings : withReasoning(s, r)
    \/ \E s \in StepIds, m \in MetricsArgs, t1 \in Clock(now), h \in BOOLEAN :
          \E t2 \in Clock(t1) : complete(s, m, t1, t2, h, 0)
    \/ \E s \in StepIds, t1 \in Clock(now), h \in BOOLEAN :
          \E t2 \in Clock(t1) : fail(s, t1, t2, h, 0)
    \/ addContext("k1", "v1")
    \/ \E fo \in FinalOutputs, t \in Clock(now), h \in BOOLEAN : finalize(fo, t, h, 0)

Spec == Init /\ [][Next]_vars

\* The store and its observers: subscribe / unsubscribe / save / delete / clear around
\* one builder that autosaves, while subscriber callbacks may throw.
NextStore ==
    \/ \E cb \in Callbacks : subscribe(cb)
    \/ \E r \in 1..MaxRegs : unsubscribe(r)
    \/ \E a \in BOOLEAN, k \in ThrowAt(subscribers) : createXRay(a, FALSE, now, k)
    \/ \E k \in ThrowAt(subscribers) : finalize("fo", now, FALSE, k)
    \/ \E ref \in 0..MaxSnaps, k \in ThrowAt(subscribers) : StoreSave(ref, k)
    \/ getExecution
    \/ \E id \in {ExecId, "x2"} : delete(id)
    \/ clear

SpecStore == Init /\ [][NextStore]_vars

\* References: what the store and the holders of getExecution() results share with
\* the builder, with the clock standing still and no callback throwing.
NextAlias ==
    \/ \E a \in BOOLEAN, c \in BOOLEAN : createXRay(a, c, now, 0)
    \/ step(now, FALSE)
    \/ \E s \in StepIds : complete(s, NoMetrics, now, now, FALSE, 0)
    \/ \E s \in StepIds : fail(s, now, now, FALSE, 0)
    \/ \E value \in Values : addContext("k1", value)
    \/ finalize("fo", now, FALSE, 0)
    \/ getExecution
    \/ \E ref \in 0..MaxSnaps : StoreSave(ref, 0)
    \/ \E i \in 1..MaxSnaps, value \in Values : CallerSetContext(i, "k2", value)
    \/ \E i \in 1..MaxSnaps : CallerPopSteps(i)
    \/ CallerWriteStored(ExecId, "w")
    \/ delete(ExecId)
    \/ clear

SpecAlias == Init /\ [][NextAlias]_vars

\* The status finalize computes: steps are opened, completed or failed in any order
\* and finalize is called any number of times, at any time of the clock.
NextFinalize ==
    \/ \E a \in BOOLEAN : createXRay(a, FALSE, now, 0)
    \/ step(now, FALSE)
    \/ \E s \in StepIds : complete(s, NoMetrics, now, now, FALSE, 0)
    \/ \E s \in StepIds : fail(s, now, now, FALSE, 0)
    \/ \E fo \in FinalOutputs, t \in Clock(now), h \in BOOLEAN : finalize(fo, t, h, 0)

SpecFinalize == Init /\ [][NextFinalize]_vars

\* subscribe / unsubscribe / save with callbacks that never throw
NextSubs ==
    \/ \E cb \in Callbacks : subscribe(cb)
    \/ \E r \in 1..MaxRegs : unsubscribe(r)
    \/ \E a \in BOOLEAN : createXRay(a, FALSE, now, 0)
    \/ finalize("fo", now, FALSE, 0)
    \/ StoreSave(BuilderRef, 0)
    \/ delete(ExecId)

SpecSubs == Init /\ [][NextSubs]_vars

\* Queries: executions the store's user built and one builder that autosaves are
\* saved, overwritten, deleted and cleared, and findAll is called with every option.
\* findAll changes nothing it reads, so a call that follows another findAll returns
\* what it returns after the call before that one: only the latter is explored.
NextQuery ==
    \/ createXRay(TRUE, FALSE, now, 0)
    \/ finalize("fo", now, FALSE, 0)
    \/ \E ref \in MadeRefs : StoreSave(ref, 0)
    \/ \E id \in {ExecId, "m1", "m2"} : delete(id)
    \/ clear
    \/ query = <<>> /\ \E options \in QueryOptions : callFindAll(options)

SpecQuery == Init /\ [][NextQuery]_vars

\* A builder with autoSave on or off next to a store that has a subscriber and holds
\* an execution of its user: every builder operation, the clock standing still.
NextManual ==
    \/ subscribe("f")
    \/ \E ref \in MadeRefs : Obj(ref).id = "m1" /\ StoreSave(ref, 0)
    \/ \E a \in BOOLEAN : createXRay(a, FALSE, now, 0)
    \/ step(now, FALSE)
    \/ \E s \in StepIds : complete(s, NoMetrics, now, now, FALSE, 0)
    \/ \E s \in StepIds : fail(s, now, now, FALSE, 0)
    \/ \E value \in Values : addContext("k1", value)
    \/ finalize("fo", now, FALSE, 0)

SpecManual == Init /\ [][NextManual]_vars

\* Finalizing again: steps are completed or failed, finalize is called at any time of
\* the clock and any number of times, and getExecution keeps a copy of what a
\* finalize left.
NextRefinalize ==
    \/ createXRay(TRUE, FALSE, now, 0)
    \/ step(now, FALSE)
    \/ \E s \in StepIds : complete(s, NoMetrics, now, now, FALSE, 0)
    \/ \E s \in StepIds : fail(s, now, now, FALSE, 0)
    \/ \E fo \in FinalOutputs, t \in Clock(now) : finalize(fo, t, FALSE, 0)
    \/ (execution.endTime # 0 /\ snaps = <<>>) /\ getExecution

SpecRefinalize == Init /\ [][NextRefinalize]_vars

\* The context: a builder created with or without config.context takes any key and
\* value through addContext, between steps and before and after finalize.
NextContext ==
    \/ \E c \in BOOLEAN : createXRay(TRUE, c, now, 0)
    \/ \E key \in Keys, value \in Values : addContext(key, value)
    \/ step(now, FALSE)
    \/ \E s \in StepIds : complete(s, NoMetrics, now, now, FALSE, 0)
    \/ finalize("fo", now, FALSE, 0)

SpecContext == Init /\ [][NextContext]_vars

\* Removal: executions of the store's user and of an autosaving builder are saved,
\* deleted by id (an id never stored included) and cleared while callbacks are
\* subscribed and unsubscribed.
NextRemove ==
    \/ \E cb \in Callbacks : subscribe(cb)
    \/ \E r \in 1..MaxRegs : unsubscribe(r)
    \/ createXRay(TRUE, FALSE, now, 0)
    \/ \E ref \in MadeRefs : StoreSave(ref, 0)
    \/ \E id \in AllIds \cup {"x2"} : delete(id)
    \/ clear

SpecRemove == Init /\ [][NextRemove]_vars

\* The live demo: the Dashboard offers Run Demo while isRunning is false, Stop while
\* it is true and Reset while an execution is shown and isRunning is false; the
\* timers of every runDemo call fire in any order.
NextDemo ==
    \/ ~isRunning /\ \E r \in 1..MaxRuns : runDemo(r)
    \/ isRunning /\ stopDemo
    \/ (liveExecution # <<>> /\ ~isRunning) /\ resetDemo
    \/ \E r \in 1..MaxRuns : StepTimer(r)
    \/ \E r \in 1..MaxRuns : PauseTimer(r)

SpecDemo == Init /\ [][NextDemo]_vars

\* ------------------------------------------------------------------ views
\* execution.steps, read through the reference
steps == stepArr[execution.steps]

\* everything a reader reaches from an execution object: its own properties, the
\* array its steps property refers to and the object its context property refers to
View(obj) ==
    [id |-> obj.id, name |-> obj.name, startTime |-> obj.startTime,
     endTime |-> obj.endTime, status |-> obj.status, finalOutput |-> obj.finalOutput,
     tags |-> obj.tags, steps |-> stepArr[obj.steps],
     context |-> IF obj.context = Undef THEN EmptyCtx ELSE ctxObj[obj.context],
     hasContext |-> obj.context # Undef]

\* what get(id) lets its caller read
StoredView(id) == IF MapHas(executions, id) THEN <<View(Obj(MapGet(executions, id)))>> ELSE <<>>

\* ------------------------------------------------------------------ claims
\* C1: every completed step in the execution has metrics.duration exactly equal to
\* endTime - startTime (a duration of the caller never survives), whatever the clock
\* does.
C1_DurationIsEndMinusStart ==
    \A i \in 1..Len(steps) :
        steps[i].status = "completed" =>
            steps[i].metrics.duration = steps[i].endTime - steps[i].startTime

\* C2: a finalize call that returns leaves the execution with status 'failed' if and
\* only if a step of it has status 'failed' at the call, 'completed' otherwise, with
\* endTime set to the time of the call and finalOutput to the argument.
C2_FinalizeStatus ==
    [][\A fo \in FinalOutputs, t \in 1..MaxClock :
          (finalize(fo, t, FALSE, 0) /\ raised' = "none") =>
             /\ execution'.status \in {"completed", "failed"}
             /\ execution'.status = "failed" <=>
                   \E i \in 1..Len(steps) : steps[i].status = "failed"
             /\ execution'.endTime = t
             /\ execution'.finalOutput = fo]_vars

\* C2 witness: finalize has returned 'failed' for an execution holding a completed
\* and a failed step
C2_Witness ==
    /\ execution.status = "failed"
    /\ raised = "none"
    /\ execution.endTime # 0
    /\ \E i, j \in 1..Len(steps) :
          steps[i].status = "failed" /\ steps[j].status = "completed"

\* C3: no opened step contributes more than one record to the step sequence.
C3_OneRecordPerStep ==
    \A s \in StepIds : Cardinality({i \in 1..Len(steps) : steps[i].id = s}) <= 1

\* C4: every step that was opened is in the step sequence, from step() on.
C4_OpenedStepIsListed ==
    \A s \in Opened : \E i \in 1..Len(steps) : steps[i].id = s

\* C5: an execution that finalize marked 'completed' never contains a failed step.
C5_CompletedHasNoFailedStep ==
    execution.status = "completed" =>
        \A i \in 1..Len(steps) : steps[i].status # "failed"

\* C6: no exception of a lifecycle hook reaches the caller of step / complete / fail /
\* finalize, and a call that records a step on an autosaving builder saves it.
C6_HookIsolated ==
    [][/\ raised' # "hook"
       /\ (autoSave /\ Len(steps') > Len(steps)) => saved' = BuilderRef]_vars

\* C7: a save in which a subscriber throws still stores the execution, still invokes
\* every subscriber once, and lets no exception through to its caller.
C7_SubscriberIsolated ==
    saved # NoSave =>
        /\ raised # "subscriber"
        /\ MapHas(executions, Obj(saved).id)
        /\ \A cb \in SeqSet(subscribers) : notified[cb] = 1

\* the subscribe() calls whose unsubscribe action has not been invoked
ActiveRegs == {r \in 1..Len(regs) : regs[r].active}

\* C8: a save invokes, exactly once, the callback of every subscribe() call that is
\* still active, and invokes no callback whose every registration was unsubscribed.
C8_ActiveNotifiedOnce ==
    saved # NoSave =>
        \A cb \in Callbacks :
            notified[cb] = IF \E r \in ActiveRegs : regs[r].cb = cb THEN 1 ELSE 0

\* C9: what get(id) returns changes only through save, delete or clear, and a write
\* to the object get(id) returned leaves the Builder's execution as it was.
C9_StoreHoldsValues ==
    [][/\ (saved' = NoSave /\ executions' = executions) =>
             StoredView(ExecId)' = StoredView(ExecId)
       /\ CallerWriteStored(ExecId, "w") => View(execution)' = View(execution)]_vars

\* a Builder operation that changes the execution
BuilderOp ==
    \/ \E s \in StepIds, m \in MetricsArgs, t1, t2 \in 1..MaxClock, h \in BOOLEAN,
          k \in 0..MaxRegs : complete(s, m, t1, t2, h, k)
    \/ \E s \in StepIds, t1, t2 \in 1..MaxClock, h \in BOOLEAN, k \in 0..MaxRegs :
          fail(s, t1, t2, h, k)
    \/ \E key \in Keys, value \in Values : addContext(key, value)
    \/ \E fo \in FinalOutputs, t \in 1..MaxClock, h \in BOOLEAN, k \in 0..MaxRegs :
          finalize(fo, t, h, k)

\* a write of the caller to an object getExecution() returned
SnapshotWrite ==
    \/ \E i \in 1..MaxSnaps, key \in Keys, value \in Values :
          CallerSetContext(i, key, value)
    \/ \E i \in 1..MaxSnaps : CallerPopSteps(i)

\* C10: no Builder operation changes what an earlier getExecution() result shows,
\* and no write to such a result changes the Builder's execution.
C10_SnapshotDecoupled ==
    [][/\ BuilderOp => \A i \in 1..Len(snaps) : View(snaps[i])' = View(snaps[i])
       /\ SnapshotWrite => View(execution)' = View(execution)]_vars

\* C11: save is an upsert keyed by id that overwrites wholesale: after a call saved
\* the object e, get(e.id) returns e, equal to e in every field, count() has grown by
\* one exactly when the id was absent before, and what every other id maps to is
\* unchanged.
C11_SaveIsUpsert ==
    [][\A ref \in AllRefs, id \in AllIds :
          (saved' = ref /\ Obj(ref)'.id = id) =>
              /\ get(id)' = ref
              /\ StoredView(id)' = <<View(Obj(ref))'>>
              /\ count' = IF MapHas(executions, id) THEN count ELSE count + 1
              /\ \A other \in AllIds \ {id} :
                     /\ get(other)' = get(other)
                     /\ StoredView(other)' = StoredView(other)]_vars

\* the latest call saved an object the caller built under an id that was stored
\* already: the entry kept the first place and another entry follows it
C11_Witness ==
    /\ saved \in MadeRefs
    /\ count >= 2
    /\ executions[1].ref = saved
    /\ Obj(saved).status = "failed"

\* the references the store holds
Stored == SeqSet(MapValues(executions))

\* an array that names no object twice
NoDuplicates(s) == Len(s) = Cardinality(SeqSet(s))

\* C12: for every store content and every status s, findAll({status: s}) and
\* findByStatus(s) return exactly the stored executions whose status is s, each once,
\* and these are among the executions findAll({}) returns.
C12_StatusFilter ==
    \A s \in Statuses :
        query = <<[NoOptions EXCEPT !.status = s]>> =>
            /\ SeqSet(result) = {r \in Stored : Obj(r).status = s}
            /\ NoDuplicates(result)
            /\ findByStatus(s) = result
            /\ SeqSet(result) \subseteq SeqSet(findAll(NoOptions))

\* findAll({status: 'running'}) returned two of three stored executions
C12_Witness ==
    /\ query = <<[NoOptions EXCEPT !.status = "running"]>>
    /\ Len(result) = 2
    /\ count = 3

\* the execution at r carries at least one of the tags of the list T
HasTagIn(r, T) == Obj(r).tags # <<>> /\ SeqSet(Obj(r).tags[1]) \cap SeqSet(T) # {}

\* C13 (as stated): for every supplied tag list T, findAll({tags: T}) and
\* findByTags(T) return exactly the stored executions that have at least one tag in
\* T; an execution with no tag in T, or with no tags at all, is excluded.
C13_TagsFilterEveryList ==
    \A T \in TagLists :
        query = <<[NoOptions EXCEPT !.tags = <<T>>]>> =>
            /\ SeqSet(result) = {r \in Stored : HasTagIn(r, T)}
            /\ findByTags(T) = result

\* C13 (amended): for every supplied tag list T that is not empty, findAll({tags: T})
\* and findByTags(T) return exactly the stored executions that have at least one tag
\* in T, each once; a supplied empty list filters nothing and returns what
\* findAll({}) returns.
C13_TagsFilter ==
    \A T \in TagLists :
        query = <<[NoOptions EXCEPT !.tags = <<T>>]>> =>
            /\ T # <<>> => SeqSet(result) = {r \in Stored : HasTagIn(r, T)}
            /\ T = <<>> => result = findAll(NoOptions)
            /\ NoDuplicates(result)
            /\ findByTags(T) = result

\* findAll({tags: ['t1', 't2']}) returned the executions tagged t1, not the one
\* tagged t3 alone and not the untagged one
C13_Witness ==
    /\ query = <<[NoOptions EXCEPT !.tags = << <<"t1", "t2">> >>]>>
    /\ Len(result) = 1
    /\ count = 3
    /\ \E r \in Stored : Obj(r).tags = <<>>

\* the three tests of a query q on the execution at r; an absent option tests nothing
StatusTest(r, q) == q.status = Undef \/ Obj(r).status = q.status
TagTest(r, q) == q.tags = <<>> \/ HasTagIn(r, q.tags[1])
TimeTest(r, q) ==
    /\ q.fromTime = <<>> \/ q.fromTime[1] <= Obj(r).startTime
    /\ q.toTime = <<>> \/ Obj(r).startTime <= q.toTime[1]

\* C14: fromTime and toTime are inclusive bounds on startTime, a bound of 0 included,
\* and all supplied filters are conjoined: findAll({status, tags, fromTime, toTime})
\* returns exactly the stored executions that pass the status test, the tag test and
\* fromTime <= startTime <= toTime, each once; findByTimeRange(from, to) is the query
\* with the two bounds alone.
C14_FiltersConjoined ==
    \A q \in FilterQueries :
        query = <<q>> =>
            /\ SeqSet(result) =
                   {r \in Stored : StatusTest(r, q) /\ TagTest(r, q) /\ TimeTest(r, q)}
            /\ NoDuplicates(result)
            /\ (q.status = Undef /\ q.tags = <<>> /\ q.fromTime # <<>> /\ q.toTime # <<>>)
                   => findByTimeRange(q.fromTime[1], q.toTime[1]) = result

\* findAll({status: 'failed', tags: ['t1'], fromTime: 2, toTime: 2}) returned the one
\* failed execution tagged t1 that started at 2, out of three stored
C14_Witness ==
    /\ query = <<[NoOptions EXCEPT !.status = "failed", !.tags = << <<"t1">> >>,
                                   !.fromTime = <<2>>, !.toTime = <<2>>]>>
    /\ Len(result) = 1
    /\ Obj(result[1]).startTime = 2
    /\ count = 3

\* the pages of limit L at the offsets O, O + L, O + 2L, ... of the query b, one after
\* the other, up to the end of what b selects
RECURSIVE Pages(_, _, _)
Pages(b, L, O) ==
    IF O >= Len(findAll(b)) THEN <<>>
    ELSE findAll([b EXCEPT !.limit = <<L>>, !.offset = <<O>>]) \o Pages(b, L, O + L)

\* C15: pagination law: for a fixed filter and sort and an unchanged store, for every
\* L >= 1 the pages at offsets 0, L, 2L, ... concatenated equal findAll with no limit,
\* nothing duplicated or skipped, and the page of a call with limit L and offset O is
\* the slice [O, O + L) of the filtered and sorted sequence.
C15_PaginationLaw ==
    /\ \A b \in PageBases, L \in 1..MaxPage :
           /\ Pages(b, L, 0) = findAll(b)
           /\ NoDuplicates(findAll(b))
    /\ \A q \in PageQueries :
           (query = <<q>> /\ q.limit # <<>> /\ q.limit[1] >= 1) =>
               LET O == IF q.offset = <<>> THEN 0 ELSE q.offset[1]
                   full == findAll([q EXCEPT !.limit = <<>>, !.offset = <<>>])
               IN result = SubSeq(full, O + 1, Min(O + q.limit[1], Len(full)))

\* findAll({limit: 2, offset: 2}) returned the last of three stored executions
C15_Witness ==
    /\ query = <<[NoOptions EXCEPT !.limit = <<2>>, !.offset = <<2>>]>>
    /\ count = 3
    /\ result = <<findAll(NoOptions)[3]>>

\* the key a query orders by: one of the three it names, else startTime
OrderKey(q) == IF q.orderBy \in {"endTime", "name"} THEN q.orderBy ELSE "startTime"

\* the execution at r1 does not come after the one at r2 in the ascending order of
\* the key
NotAfter(r1, r2, key) ==
    IF key = "name" THEN localeCompare(Obj(r1).name, Obj(r2).name) <= 0
    ELSE SortValue(Obj(r1), key) <= SortValue(Obj(r2), key)

\* C16: the sequence findAll returns is ordered by the orderBy key (startTime, endTime
\* or name) in the orderDirection given; with no options it is ordered by startTime
\* descending; an orderBy outside the three keys orders by startTime.
C16_Ordered ==
    \A q \in SortQueries :
        query = <<q>> =>
            /\ SeqSet(result) = Stored
            /\ NoDuplicates(result)
            /\ \A i, j \in 1..Len(result) :
                   i < j => IF q.orderDirection = "asc"
                            THEN NotAfter(result[i], result[j], OrderKey(q))
                            ELSE NotAfter(result[j], result[i], OrderKey(q))

\* findAll() returned three executions of three different start times, latest first
C16_Witness ==
    /\ query = <<NoOptions>>
    /\ Len(result) = 3
    /\ Obj(result[1]).startTime > Obj(result[2]).startTime
    /\ Obj(result[2]).startTime > Obj(result[3]).startTime

\* the execution at r has no endTime
Unfinished(r) == Obj(r).endTime = 0

\* C17: under orderBy 'endTime' an execution without endTime is ordered as if its
\* endTime were 0: ascending, every unfinished execution precedes every finished one;
\* descending (also the default direction), every unfinished one follows every
\* finished one.
C17_UnfinishedAsZero ==
    \A d \in {Undef, "asc", "desc"} :
        query = <<[NoOptions EXCEPT !.orderBy = "endTime", !.orderDirection = d]>> =>
            \A i, j \in 1..Len(result) :
                i < j => IF d = "asc"
                         THEN ~(~Unfinished(result[i]) /\ Unfinished(result[j]))
                         ELSE ~(Unfinished(result[i]) /\ ~Unfinished(result[j]))

\* findAll({orderBy: 'endTime', orderDirection: 'asc'}) returned an unfinished
\* execution that started late ahead of two finished ones
C17_Witness ==
    /\ query = <<[NoOptions EXCEPT !.orderBy = "endTime", !.orderDirection = "asc"]>>
    /\ Len(result) = 3
    /\ Unfinished(result[1])
    /\ ~Unfinished(result[2])
    /\ Obj(result[1]).startTime > Obj(result[2]).endTime

\* C18: after any sequence of save, delete and clear, and of builder operations on a
\* stored execution, countByStatus() has exactly the four keys pending, running,
\* completed and failed, each valued with the number of stored executions that have
\* that status now, and the four values sum to count().
C18_CountByStatus ==
    /\ DOMAIN countByStatus = {"pending", "running", "completed", "failed"}
    /\ \A s \in DOMAIN countByStatus :
           countByStatus[s] =
               Cardinality({id \in AllIds :
                               MapHas(executions, id) /\ Obj(get(id)).status = s})
    /\ countByStatus["pending"] + countByStatus["running"]
           + countByStatus["completed"] + countByStatus["failed"] = count

\* three executions are stored, the builder's among them, and two of them are running
C18_Witness ==
    /\ count = 3
    /\ MapHas(executions, ExecId)
    /\ countByStatus["running"] = 2
    /\ countByStatus["failed"] = 1

\* an optional number that is present and negative, and the query with its negative
\* limit and offset replaced by 0
Negative(o) == o # <<>> /\ o[1] < 0
Clamped(q) ==
    [q EXCEPT !.limit = IF Negative(q.limit) THEN <<0>> ELSE q.limit,
              !.offset = IF Negative(q.offset) THEN <<0>> ELSE q.offset]

\* C19: a negative limit or a negative offset passed to findAll is either rejected or
\* treated as zero: the call returns nothing, or what the call with 0 in place of the
\* negative number returns; it never selects executions counted from the end of the
\* sorted sequence and never drops executions from the end of the result.
C19_NegativeRejectedOrZero ==
    \A q \in NegativeQueries :
        (query = <<q>> /\ (Negative(q.limit) \/ Negative(q.offset))) =>
            \/ result = <<>>
            \/ result = findAll(Clamped(q))

\* C20: with autoSave enabled, every builder operation that changes the execution
\* (creation, complete, fail, addContext, finalize) is pushed to the store at once:
\* when the operation returns, a save of the execution has occurred in it, so that the
\* subscribers were notified and get(id) reflects the change; and from creation until
\* finalize the stored execution has status 'running'.
C20_AutoSaveEveryChange ==
    [][(autoSave' /\ created' /\ raised' = "none") =>
          /\ (~created \/ View(execution)' # View(execution)) =>
                 /\ saved' = BuilderRef
                 /\ StoredView(ExecId)' = <<View(execution)'>>
          /\ execution'.endTime = 0 =>
                 /\ MapHas(executions, ExecId)'
                 /\ Obj(get(ExecId))'.status = "running"]_vars

\* any operation of the builder, with any argument
BuilderCall ==
    \/ BuilderOp
    \/ \E a, c \in BOOLEAN, t \in 1..MaxClock, k \in 0..MaxRegs : createXRay(a, c, t, k)
    \/ \E t \in 1..MaxClock, h \in BOOLEAN : step(t, h)

\* C21: with autoSave set to false no builder operation (creation, step, complete,
\* fail, addContext, finalize) calls the store's save: the entries of the store are
\* unchanged and no subscriber of the store is notified; that is, a call that saves,
\* changes the entries or notifies a subscriber is no operation of such a builder.
C21_NoAutoSave ==
    [][(/\ ~autoSave'
        /\ \/ saved' # NoSave
           \/ executions' # executions
           \/ notified' # NoneNotified) => ~BuilderCall]_vars

\* a builder with autoSave off has recorded a step, taken a context entry and been
\* finalized, while the store, which has a subscriber, holds its user's execution only
C21_Witness ==
    /\ created /\ ~autoSave
    /\ steps # <<>>
    /\ execution.context # Undef
    /\ execution.endTime # 0
    /\ subscribers # <<>>
    /\ count = 1 /\ ~MapHas(executions, ExecId)

\* the status the step records recs call for
StatusOf(recs) ==
    IF \E i \in 1..Len(recs) : recs[i].status = "failed" THEN "failed" ELSE "completed"

\* C22: finalize may be called again on a finalized execution and is idempotent: the
\* call recomputes status from the steps present at the call and leaves steps and
\* context alone, so that with the argument of the call before it and no builder
\* operation in between, status, steps, context and finalOutput stay as they were.
C22_FinalizeIdempotent ==
    [][\A fo \in FinalOutputs :
          (/\ execution.endTime # 0
           /\ \E t \in 1..MaxClock, h \in BOOLEAN, k \in 0..MaxRegs :
                 finalize(fo, t, h, k)) =>
              /\ execution'.status = StatusOf(steps)
              /\ execution'.finalOutput = fo
              /\ steps' = steps
              /\ View(execution)'.context = View(execution).context
              /\ (execution.finalOutput = fo /\ execution.status = StatusOf(steps)) =>
                     /\ execution'.status = execution.status
                     /\ execution'.finalOutput = execution.finalOutput]_vars

\* getExecution() copied a finalized execution with a failed step, and a finalize
\* with the same argument has returned since, at a later time: the execution differs
\* from the copy in its endTime alone
C22_Witness ==
    /\ snaps # <<>>
    /\ snaps[1].endTime # 0
    /\ execution.endTime > snaps[1].endTime
    /\ execution.status = "failed"
    /\ [execution EXCEPT !.endTime = snaps[1].endTime] = snaps[1]

\* C23: in every reachable state of a builder, after any sequence of step, setter,
\* complete and fail calls on any of its sub-builders, no two steps of the execution's
\* step sequence have the same id.
C23_UniqueStepIds ==
    \A i, j \in 1..Len(steps) : i # j => steps[i].id # steps[j].id

\* C24: the step sequence is append-only and in step-open order: no operation removes
\* or reorders the steps in it, and a step opened before another one precedes it,
\* whichever of the two is completed or failed first (step ids are given in the order
\* of the step() calls).
C24_AppendOnlyOpenOrder ==
    [][/\ Len(steps') >= Len(steps)
       /\ SubSeq(steps', 1, Len(steps)) = steps
       /\ \A i, j \in 1..Len(steps') :
              (i < j /\ steps'[i].id # steps'[j].id) => steps'[i].id < steps'[j].id]_vars

C26_AddContextFrame ==
    [][\A key \in Keys, value \in Values :
          addContext(key, value) =>
              /\ View(execution)'.hasContext
              /\ View(execution)'.context[key] = value
              /\ \A other \in Keys \ {key} :
                     View(execution)'.context[other] = View(execution).context[other]
              /\ [View(execution)' EXCEPT !.context = EmptyCtx, !.hasContext = TRUE]
                     = [View(execution) EXCEPT !.context = EmptyCtx, !.hasContext = TRUE]]_vars

\* on a builder configured with the context {k1: 'v1'}, addContext has overwritten k1
\* and added k2, with a step recorded
C26_Witness ==
    /\ execution.context = CfgCtx
    /\ ctxObj[CfgCtx]["k1"] = "v2"
    /\ ctxObj[CfgCtx]["k2"] = "v1"
    /\ steps # <<>>

\* C27: each subscribe call is a registration of its own, also when the same callback
\* is subscribed more than once: a save notifies every registration that was not
\* unsubscribed, whatever unsubscribe action of another registration was invoked.
C27_IndependentRegistrations ==
    saved # NoSave => \A r \in ActiveRegs : notified[regs[r].cb] >= 1

\* C28: whenever a non-negative limit is supplied to findAll, the result holds at most
\* limit executions, so that limit 0 yields an empty result, for every store content,
\* filter, sort and offset.
C28_LimitIsUpperBound ==
    \A q \in PageQueries :
        (query = <<q>> /\ q.limit # <<>> /\ q.limit[1] >= 0) =>
            Len(result) <= q.limit[1]

\* C29: delete(id) returns true exactly when id was stored and then removes that entry
\* alone; delete or get of an id that is not stored reports absence and leaves the
\* store unchanged; after clear() count() is 0 and findAll({}) is empty; neither
\* delete nor clear notifies a subscriber or removes a registration.
C29_DeleteAndClear ==
    [][/\ \A id \in AllIds \cup {"x2"} :
              delete(id) =>
                  /\ deleteReturns(id) <=> count' = count - 1
                  /\ ~deleteReturns(id) => (executions' = executions /\ get(id) = NoSave)
                  /\ get(id)' = NoSave
                  /\ \A other \in AllIds \ {id} : get(other)' = get(other)
                  /\ notified' = NoneNotified /\ saved' = NoSave /\ raised' = "none"
                  /\ subscribers' = subscribers /\ regs' = regs
       /\ clear =>
              /\ count' = 0
              /\ findAll(NoOptions)' = <<>>
              /\ notified' = NoneNotified /\ saved' = NoSave /\ raised' = "none"
              /\ subscribers' = subscribers /\ regs' = regs]_vars

\* the autosaved execution of the builder is gone from the store, which still holds
\* two executions and a subscriber, and the latest call was no save
C29_Witness ==
    /\ created
    /\ ~MapHas(executions, ExecId)
    /\ count = 2
    /\ subscribers # <<>>
    /\ saved = NoSave

\* C30: a run stopped by stopDemo or resetDemo never modifies liveExecution again,
\* whatever is invoked afterwards, so that liveExecution never holds two steps with
\* the same id, is never 'completed' with a step still 'running', and isRunning is
\* true as long as a run that was not stopped is in progress.
C30_StoppedRunStaysStopped ==
    [][/\ \A r \in stopped :
              (StepTimer(r) \/ PauseTimer(r)) => liveExecution' = liveExecution
       /\ liveExecution' # <<>> =>
              LET live == liveExecution'[1] IN
              /\ \A m, n \in 1..Len(live.steps) :
                     m # n => live.steps[m].id # live.steps[n].id
              /\ live.status = "completed" =>
                     \A n \in 1..Len(live.steps) : live.steps[n].status # "running"
       /\ (InProgress' \ stopped' # {}) => isRunning']_vars
====
